---- MODULE Spec2Model ----
(***************************************************************************)
(* Model of pytorch_generative/models/gated_pixel_cnn.py.                  *)
(*                                                                         *)
(* A tensor is abstracted to its shape, <<N, C, H, W>>, and to its         *)
(* receptive field: dep is the set of pairs <<p, a>> saying that the       *)
(* value at spatial position p = <<row, column>> is computed from the      *)
(* input element a = <<source, row, column>>.  Convolutions mix every      *)
(* channel and never mix batch entries, so the field is spatial only.      *)
(* A raised exception is a tensor whose err field names the exception.     *)
(***************************************************************************)
EXTENDS Integers, Sequences, FiniteSets

\* Bounds of the explored inputs.
MaxN == 1
MaxCh == 2
MaxDim == 3
MaxKernel == 5
MaxOutDim == 2
MaxGated == 2
MaxHidden == 1

NoErr == ""
Raise(e) == [err |-> e, shape |-> <<>>, dep |-> {}]
Tensor(s, d) == [err |-> NoErr, shape |-> s, dep |-> d]

Min(a, b) == IF a < b THEN a ELSE b
Max(a, b) == IF a > b THEN a ELSE b

\* F applied to the value of x: x is evaluated once, however often F uses it.
Let(x, F(_)) == CHOOSE r \in {F(v) : v \in {x}} : TRUE

Positions(h, w) == (0..(h - 1)) \X (0..(w - 1))

\* An input image: every position is computed from itself only.
InputTensor(src, s) ==
  Tensor(s, {<<p, <<src, p[1], p[2]>>>> : p \in Positions(s[3], s[4])})

\* The exception of the first statement that raised, in statement order.
RECURSIVE FirstErr(_)
FirstErr(ts) ==
  IF ts = <<>> THEN NoErr
  ELSE IF Head(ts).err # NoErr THEN Head(ts).err
  ELSE FirstErr(Tail(ts))

\* nn.Conv2d(in_channels, out_channels, kernel_size=(kh, kw), padding=(ph, pw)).
Conv2d(cin, cout, kh, kw, ph, pw) ==
  [cin |-> cin, cout |-> cout, kh |-> kh, kw |-> kw, ph |-> ph, pw |-> pw]

\* conv(t): output (i, j) reads input rows i-ph .. i-ph+kh-1 and columns
\* j-pw .. j-pw+kw-1; entries outside the input are zero padding.
Conv2dForward(conv, t) ==
  IF t.err # NoErr THEN t
  ELSE IF t.shape[2] # conv.cin THEN Raise("RuntimeError")
  ELSE IF t.shape[3] + 2 * conv.ph < conv.kh \/ t.shape[4] + 2 * conv.pw < conv.kw
    THEN Raise("RuntimeError")
  ELSE
    LET ho == t.shape[3] + 2 * conv.ph - conv.kh + 1
        wo == t.shape[4] + 2 * conv.pw - conv.kw + 1
        all == {<<<<d[1][1] + conv.ph - a, d[1][2] + conv.pw - b>>, d[2]>> :
                  d \in t.dep, a \in 0..(conv.kh - 1), b \in 0..(conv.kw - 1)}
    IN  Tensor(<<t.shape[1], conv.cout, ho, wo>>,
               {e \in all : e[1] \in Positions(ho, wo)})

\* t[:, :, :h, :]
SliceRows(t, h) ==
  IF t.err # NoErr THEN t
  ELSE Tensor(<<t.shape[1], t.shape[2], Min(h, t.shape[3]), t.shape[4]>>,
              {e \in t.dep : e[1][1] < h})

\* t[:, :, :, :w]
SliceCols(t, w) ==
  IF t.err # NoErr THEN t
  ELSE Tensor(<<t.shape[1], t.shape[2], t.shape[3], Min(w, t.shape[4])>>,
              {e \in t.dep : e[1][2] < w})

\* b seen at the extent of a: a dimension of size 1 is repeated.
Expand(b, s) ==
  UNION {{<<p, x[2]>> : x \in {y \in b.dep :
                                /\ (b.shape[3] = 1 \/ y[1][1] = p[1])
                                /\ (b.shape[4] = 1 \/ y[1][2] = p[2])}} :
         p \in Positions(s[3], s[4])}

\* a + b, with broadcasting.
Add(a, b) ==
  IF a.err # NoErr THEN a
  ELSE IF b.err # NoErr THEN b
  ELSE IF \E i \in 1..4 : a.shape[i] # b.shape[i] /\ a.shape[i] # 1 /\ b.shape[i] # 1
    THEN Raise("RuntimeError")
  ELSE LET s == [i \in 1..4 |-> Max(a.shape[i], b.shape[i])]
       IN  Tensor(s, Expand(a, s) \cup Expand(b, s))

\* a += b: b is broadcast to a; a keeps its shape.
InplaceAdd(a, b) ==
  IF a.err # NoErr THEN a
  ELSE IF b.err # NoErr THEN b
  ELSE IF \E i \in 1..4 : b.shape[i] # a.shape[i] /\ b.shape[i] # 1
    THEN Raise("RuntimeError")
  ELSE Tensor(a.shape, a.dep \cup Expand(b, a.shape))

\* GatedActivation.forward: tanh(x[:, :c//2]) * sigmoid(x[:, c//2:]).
GatedActivation(x) ==
  IF x.err # NoErr THEN x
  ELSE LET c == x.shape[2] IN
    IF c % 2 # 0 THEN Raise("AssertionError")
    ELSE Tensor(<<x.shape[1], c \div 2, x.shape[3], x.shape[4]>>, x.dep)

\* self._padding
Padding(kernel_size) == (kernel_size - 1) \div 2

\* Mutant: the row convolution keeps the full, symmetric kernel.
VstackNx1_unmasked(out_channels, kernel_size) ==
  Conv2d(out_channels, 2 * out_channels, kernel_size, 1, Padding(kernel_size), 0)

\* Mutant: the row convolution is padded without the extra row.
VstackNx1_unshifted(out_channels, kernel_size) ==
  Conv2d(out_channels, 2 * out_channels, kernel_size \div 2 + 1, 1,
         Padding(kernel_size), 0)

\* kernel_size=(self._kernel_size//2 + 1, 1), padding=(self._padding + 1, 0)
VstackNx1(out_channels, kernel_size) ==
  Conv2d(out_channels, 2 * out_channels, kernel_size \div 2 + 1, 1,
         Padding(kernel_size) + 1, 0)

\* kernel_size=(1, self._kernel_size//2 + 1),
\* padding=(0, self._padding + int(self._is_causal))
Hstack1xN(in_channels, out_channels, kernel_size, is_causal) ==
  Conv2d(in_channels, 2 * out_channels, 1, kernel_size \div 2 + 1,
         0, Padding(kernel_size) + (IF is_causal THEN 1 ELSE 0))

ConvNames == {"vstack_1xN", "vstack_Nx1", "vstack_1x1", "link",
              "hstack_1xN", "hstack_residual", "hstack_skip"}

\* Mutant: the kernel_size assertion runs after the convolutions are built.
ConvsBeforeAssert_late == ConvNames

\* The sub-modules registered on the layer when the kernel_size assertion runs.
ConvsBeforeAssert == {}

\* GatedPixelCNNLayer.__init__
GatedPixelCNNLayer(in_channels, out_channels, kernel_size, is_causal) ==
  IF kernel_size % 2 # 1
  THEN [kind |-> "layer", err |-> "AssertionError", created |-> ConvsBeforeAssert,
        kernel_size |-> kernel_size, is_causal |-> is_causal,
        in_channels |-> in_channels, out_channels |-> out_channels]
  ELSE [kind |-> "layer", err |-> NoErr, created |-> ConvsBeforeAssert \cup ConvNames,
        kernel_size |-> kernel_size, is_causal |-> is_causal,
        in_channels |-> in_channels, out_channels |-> out_channels,
        vstack_1xN |-> Conv2d(in_channels, out_channels, 1, kernel_size,
                              0, Padding(kernel_size)),
        vstack_Nx1 |-> VstackNx1(out_channels, kernel_size),
        vstack_1x1 |-> Conv2d(in_channels, 2 * out_channels, 1, 1, 0, 0),
        link |-> Conv2d(2 * out_channels, 2 * out_channels, 1, 1, 0, 0),
        hstack_1xN |-> Hstack1xN(in_channels, out_channels, kernel_size, is_causal),
        hstack_residual |-> Conv2d(out_channels, out_channels, 1, 1, 0, 0),
        hstack_skip |-> Conv2d(out_channels, out_channels, 1, 1, 0, 0)]

\* Mutant: the residual connection is kept in causal layers too.
Residual_always(layer, hstack, hstack_input) == InplaceAdd(hstack, hstack_input)

\* The horizontal stack's residual connection.
Residual(layer, hstack, hstack_input) ==
  IF ~layer.is_causal THEN InplaceAdd(hstack, hstack_input) ELSE hstack

\* self._vstack_Nx1(self._vstack_1xN(vstack_input))[:, :, :h, :]
CroppedVstackNx1(layer, vstack_input) ==
  Let(Conv2dForward(layer.vstack_1xN, vstack_input), LAMBDA rows :
  Let(Conv2dForward(layer.vstack_Nx1, rows), LAMBDA padded :
  SliceRows(padded, vstack_input.shape[3])))

\* return vstack, hstack, skip; or the exception of the first of the
\* statements, in order, that raised one.
LayerReturn(statements, vstack, hstack, skip) ==
  Let(FirstErr(statements), LAMBDA err :
  IF err # NoErr
  THEN [err |-> err, vstack |-> Raise(err), hstack |-> Raise(err), skip |-> Raise(err)]
  ELSE [err |-> NoErr, vstack |-> vstack, hstack |-> hstack, skip |-> skip])

\* GatedPixelCNNLayer.forward
LayerForward(layer, vstack_input, hstack_input) ==
  Let(CroppedVstackNx1(layer, vstack_input), LAMBDA vstack0 :
  Let(Conv2dForward(layer.link, vstack0), LAMBDA link :
  Let(Conv2dForward(layer.vstack_1x1, vstack_input), LAMBDA shortcut :
  Let(InplaceAdd(vstack0, shortcut), LAMBDA vstack1 :
  Let(GatedActivation(vstack1), LAMBDA vstack :
  Let(Conv2dForward(layer.hstack_1xN, hstack_input), LAMBDA columns :
  Let(SliceCols(columns, vstack_input.shape[4]), LAMBDA cropped :
  Let(Add(link, cropped), LAMBDA hstack0 :
  Let(GatedActivation(hstack0), LAMBDA hstack1 :
  Let(Conv2dForward(layer.hstack_skip, hstack1), LAMBDA skip :
  Let(Conv2dForward(layer.hstack_residual, hstack1), LAMBDA hstack2 :
  Let(Residual(layer, hstack2, hstack_input), LAMBDA hstack :
  LayerReturn(<<vstack0, link, shortcut, vstack1, vstack, columns, hstack0,
                hstack1, skip, hstack2, hstack>>, vstack, hstack, skip)
  ))))))))))))

\* kernel_size of the input layer and of the gated layers.
InputKernelSize == 7
GatedKernelSize == 3

\* Mutant: the last head convolution forgets the input channels.
HeadOutChannels_noC(out_dim, in_channels) == out_dim

\* out_channels=self._out_dim * in_channels
HeadOutChannels(out_dim, in_channels) == out_dim * in_channels

\* GatedPixelCNN.__init__
GatedPixelCNN(in_channels, out_dim, n_gated, gated_channels, head_channels) ==
  [kind |-> "model", err |-> NoErr,
   in_channels |-> in_channels, n_gated |-> n_gated,
   attrs |-> {"_out_dim", "_input", "_gated_layers", "_head"},
   out_dim |-> out_dim,
   input |-> GatedPixelCNNLayer(in_channels, gated_channels, InputKernelSize, TRUE),
   gated_layers |-> [i \in 1..n_gated |->
                       GatedPixelCNNLayer(gated_channels, gated_channels,
                                          GatedKernelSize, FALSE)],
   head |-> <<Conv2d(gated_channels, head_channels, 1, 1, 0, 0),
              Conv2d(head_channels, HeadOutChannels(out_dim, in_channels),
                     1, 1, 0, 0)>>]

\* for gated_layer in self._gated_layers: ...; skip_connections += skip
RECURSIVE GatedLoop(_, _, _, _)
GatedLoop(layers, vstack, hstack, skip_connections) ==
  IF layers = <<>> THEN skip_connections
  ELSE Let(LayerForward(Head(layers), vstack, hstack), LAMBDA out :
       IF out.err # NoErr THEN Raise(out.err)
       ELSE Let(InplaceAdd(skip_connections, out.skip), LAMBDA sum :
            IF sum.err # NoErr THEN sum
            ELSE GatedLoop(Tail(layers), out.vstack, out.hstack, sum)))

\* self._head: ReLU, 1x1 convolution, ReLU, 1x1 convolution, Sigmoid.
HeadForward(head, t) ==
  Let(Conv2dForward(head[1], t), LAMBDA hidden : Conv2dForward(head[2], hidden))

\* t.view(shape): the same elements under a new shape.
View(t, shape) ==
  IF t.err # NoErr THEN t
  ELSE IF t.shape[1] * t.shape[2] * t.shape[3] * t.shape[4]
            # shape[1] * shape[2] * shape[3] * shape[4] * shape[5]
    THEN Raise("RuntimeError")
  ELSE Tensor(shape, t.dep)

\* GatedPixelCNN.forward
Forward(model, x) ==
  Let(LayerForward(model.input, x, x), LAMBDA first :
  Let(IF first.err # NoErr THEN Raise(first.err)
      ELSE GatedLoop(model.gated_layers, first.vstack, first.hstack, first.skip),
      LAMBDA skip_connections :
  Let(HeadForward(model.head, skip_connections), LAMBDA head :
  [head |-> head,
   out |-> View(head, <<x.shape[1], model.out_dim, x.shape[2],
                        x.shape[3], x.shape[4]>>)])))

\* range(28) for the rows and for the columns of the sampling scan.
ScanRows == 28
ScanCols == 28

\* An image given to sample: shape (N, C, H, W) and, for batch 0 and channel
\* 0, the entries that are known, as triples <<row, column, value>> with
\* value >= 0; every other entry is -1.  None is the absent argument.
None == [none |-> TRUE, shape |-> <<>>, known |-> {}]
Image(s, known) == [none |-> FALSE, shape |-> s, known |-> known]
Entry(image, row, column) ==
  IF \E e \in image.known : e[1] = row /\ e[2] = column
  THEN (CHOOSE e \in image.known : e[1] = row /\ e[2] = column)[3]
  ELSE -1

\* The name of sample's parameter, and the name its body reads and assigns.
SampleParam == "condition_on"
SampleLocal == "conditioned_on"

\* Outcome of sample: the exception, the heap of images by object identity
\* (1 is the caller's), the returned object, the positions visited and the
\* number of forward passes.
SampleOutcome(err, heap, ret, visited, passes) ==
  [err |-> err, heap |-> heap, ret |-> ret, visited |-> visited, passes |-> passes]

\* The body of the loops over row and column, from scan index k on.
\* draw[k % 2] is the Bernoulli outcome at index k.
RECURSIVE SampleLoop(_, _, _, _, _)
SampleLoop(model, heap, k, draw, visited) ==
  IF k = ScanRows * ScanCols THEN SampleOutcome(NoErr, heap, 2, visited, k)
  ELSE
    LET row == k \div ScanCols
        column == k % ScanCols
        canvas == heap[2]
    IN  Let(Forward(model, InputTensor("x", canvas.shape)).out, LAMBDA out :
        IF out.err # NoErr THEN SampleOutcome(out.err, heap, 0, visited, k + 1)
        \* squeeze(dim=1) drops the out_dim axis only when it is 1
        ELSE IF out.shape[2] # 1 THEN SampleOutcome("RuntimeError", heap, 0, visited, k + 1)
        ELSE IF row >= canvas.shape[3] \/ column >= canvas.shape[4]
          THEN SampleOutcome("IndexError", heap, 0, visited, k + 1)
        ELSE
          LET old == Entry(canvas, row, column)
              \* torch.where(conditioned_on[...] < 0, out, conditioned_on[...])
              written == IF old < 0
                         THEN Image(canvas.shape,
                                    canvas.known \cup {<<row, column, draw[k % 2]>>})
                         ELSE canvas
          IN  SampleLoop(model, [heap EXCEPT ![2] = written], k + 1, draw,
                         Append(visited, <<row, column>>)))

\* GatedPixelCNN.sample
Sample(model, arg, draw) ==
  LET locals == [name \in {SampleParam} |-> arg]
      heap == [id \in {1} |-> arg]
  IN  \* "if conditioned_on is None": the name is local (assigned below) and
      \* holds a value only if the parameter bound it.
      IF SampleLocal \notin DOMAIN locals
        THEN SampleOutcome("UnboundLocalError", heap, 0, <<>>, 0)
      ELSE IF locals[SampleLocal].none
        THEN \* torch.ones((1, self._input_dim)): __init__ sets no _input_dim;
             \* were it set, forward could not unpack the 2-D canvas's shape.
             IF "_input_dim" \notin model.attrs
               THEN SampleOutcome("AttributeError", heap, 0, <<>>, 0)
             ELSE SampleOutcome("ValueError", heap, 0, <<>>, 1)
      ELSE SampleLoop(model, [id \in {1, 2} |-> locals[SampleLocal]], 0, draw, <<>>)

\* The images a caller conditions on: nothing known, two corners known,
\* the first row known, every entry known.
ScanShape == <<1, 1, ScanRows, ScanCols>>
Canvases ==
  { Image(ScanShape, {}),
    Image(ScanShape, {<<0, 0, 1>>, <<ScanRows - 1, ScanCols - 1, 0>>}),
    Image(ScanShape, {<<0, c, c % 2>> : c \in 0..(ScanCols - 1)}),
    Image(ScanShape, {<<p[1], p[2], (p[1] + p[2]) % 2>> :
                        p \in Positions(ScanRows, ScanCols)}) }

VARIABLES
  module,   \* the module most recently constructed, or its failed construction
  call      \* the call whose outcome the caller holds: arguments and outcome

vars == <<module, call>>

NoModule == [kind |-> "none", err |-> NoErr]
NoCall == [op |-> "none"]

Shapes == (1..MaxN) \X (1..MaxCh) \X (1..MaxDim) \X (1..MaxDim)

Init ==
  /\ module = NoModule
  /\ call = NoCall

\* layer = GatedPixelCNNLayer(in_channels, out_channels, kernel_size, is_causal)
NewLayer ==
  /\ call = NoCall
  /\ \E cin \in 1..MaxCh, cout \in 1..MaxCh, k \in 1..MaxKernel, causal \in BOOLEAN :
       module' = GatedPixelCNNLayer(cin, cout, k, causal)
  /\ UNCHANGED call

\* layer(vstack_input, hstack_input) on two inputs of one shape
CallLayer ==
  /\ call = NoCall
  /\ module.kind = "layer"
  /\ module.err = NoErr
  /\ \E s \in Shapes :
       \E vstack_input \in {InputTensor("v", s)}, hstack_input \in {InputTensor("h", s)} :
         call' = [op |-> "layer", shape |-> s,
                  out |-> LayerForward(module, vstack_input, hstack_input)]
  /\ UNCHANGED module

\* GatedActivation()(x)
CallActivation ==
  /\ call = NoCall
  /\ \E s \in Shapes :
       \E x \in {InputTensor("x", s)} :
         call' = [op |-> "activation", shape |-> s, out |-> GatedActivation(x)]
  /\ UNCHANGED module

\* model = GatedPixelCNN(in_channels, out_dim, n_gated, gated_channels, head_channels)
NewModel ==
  /\ call = NoCall
  /\ \E cin \in 1..MaxCh, out_dim \in 1..MaxOutDim, n_gated \in 0..MaxGated,
        gated \in 1..MaxHidden, head \in 1..MaxHidden :
       module' = GatedPixelCNN(cin, out_dim, n_gated, gated, head)
  /\ UNCHANGED call

\* model.forward(x)
CallForward ==
  /\ call = NoCall
  /\ module.kind = "model"
  /\ \E s \in Shapes :
       \E x \in {InputTensor("x", s)} :
         \E r \in {Forward(module, x)} :
           call' = [op |-> "forward", shape |-> s, head |-> r.head, out |-> r.out]
  /\ UNCHANGED module

\* model.sample(condition_on)
CallSample ==
  /\ call = NoCall
  /\ module.kind = "model"
  /\ \E arg \in Canvases \cup {None}, draw \in [0..1 -> {0, 1}] :
       call' = [op |-> "sample", arg |-> arg, out |-> Sample(module, arg, draw)]
  /\ UNCHANGED module

\* The caller takes the outcome of the call; the next call can start.
Return ==
  /\ call # NoCall
  /\ call' = NoCall
  /\ UNCHANGED module

Next ==
  \/ Return
  \/ NewLayer
  \/ NewModel
  \/ CallForward
  \/ CallSample
  \/ CallLayer
  \/ CallActivation

Spec == Init /\ [][Next]_vars

(***************************************************************************)
(* The layer.                                                              *)
(***************************************************************************)
LayerCalled == call.op = "layer" /\ module.kind = "layer"
LayerReturned == LayerCalled /\ call.out.err = NoErr

\* C4: in a causal layer of any odd kernel_size, the hstack output at
\* column c does not depend on hstack_input at a column c' > c, in any row;
\* the vstack output at row r does not depend on vstack_input at a row
\* r' > r; and the hstack output at row r depends on no input row > r.
C4_LayerCausality ==
  (LayerCalled /\ module.is_causal /\ call.shape[2] = module.in_channels) =>
    /\ call.out.err = NoErr
    /\ \A e \in call.out.hstack.dep : e[2][1] = "h" => e[2][3] <= e[1][2]
    /\ \A e \in call.out.vstack.dep : e[2][1] = "v" => e[2][2] <= e[1][1]
    /\ \A e \in call.out.hstack.dep : e[2][2] <= e[1][1]

\* A causal kernel_size 5 layer ran on an image with columns and rows after
\* (1, 1), and its hstack output there reads the column to the left and the
\* row above.
C4_Witness ==
  /\ LayerReturned /\ module.is_causal /\ module.kernel_size = 5
  /\ call.shape[3] = 3 /\ call.shape[4] = 3
  /\ <<<<1, 1>>, <<"h", 1, 0>>>> \in call.out.hstack.dep
  /\ <<<<1, 1>>, <<"v", 0, 2>>>> \in call.out.hstack.dep
  /\ <<<<1, 1>>, <<"v", 1, 1>>>> \in call.out.vstack.dep

\* C5: for every layer (any in_channels, out_channels, odd kernel_size,
\* causal or not) and every input pair of shape (N, in_channels, H, W),
\* forward completes and returns vstack, hstack and skip of shape
\* (N, out_channels, H, W).
C5_LayerShapePreserved ==
  (LayerCalled /\ call.shape[2] = module.in_channels) =>
    LET s == <<call.shape[1], module.out_channels, call.shape[3], call.shape[4]>>
    IN  /\ call.out.err = NoErr
        /\ call.out.vstack.shape = s
        /\ call.out.hstack.shape = s
        /\ call.out.skip.shape = s

\* C7: constructing a layer with an even kernel_size fails before any
\* sub-convolution is created, and GatedActivation rejects an input with an
\* odd channel count and produces no result.
C7_PreconditionsFailFast ==
  /\ (module.kind = "layer" /\ module.kernel_size % 2 = 0) =>
       module.err = "AssertionError" /\ module.created = {}
  /\ (call.op = "activation" /\ call.shape[2] % 2 = 1) =>
       call.out.err = "AssertionError" /\ call.out.shape = <<>>

\* An even kernel_size was refused and then an odd channel count was.
C7_Witness ==
  /\ module.kind = "layer" /\ module.kernel_size = 2
  /\ module.err = "AssertionError"
  /\ call.op = "activation" /\ call.shape[2] = 1
  /\ call.out.err = "AssertionError"

\* The rows of vstack_input that row r of the cropped vstack_Nx1 output reads.
RowWindow(r) ==
  Let(InputTensor("v", call.shape), LAMBDA vstack_input :
      {e[2][2] : e \in {x \in CroppedVstackNx1(module, vstack_input).dep :
                          x[1][1] = r}})

\* C10 as stated: row r of the cropped vstack_Nx1 output reads only rows
\* above and including r, row r itself being inside the window, and never a
\* row > r.
C10_RowWindowIncludesCurrent ==
  LayerReturned =>
    \A r \in 0..(call.shape[3] - 1) :
      /\ \A q \in RowWindow(r) : q <= r
      /\ r \in RowWindow(r)

\* C10 amended: row r of the cropped vstack_Nx1 output reads exactly the
\* kernel_size//2 + 1 rows strictly above r that exist, rows
\* r - kernel_size//2 - 1 .. r - 1; row r itself is outside the window.
C10_RowWindowStrictlyAbove ==
  LayerReturned =>
    \A r \in 0..(call.shape[3] - 1) :
      RowWindow(r) = {q \in 0..(call.shape[3] - 1) :
                        r - module.kernel_size \div 2 - 1 <= q /\ q <= r - 1}

\* A kernel_size 3 layer ran on three rows: the last row reads the two above.
C10_Witness ==
  /\ LayerReturned /\ module.kernel_size = 3 /\ call.shape[3] = 3
  /\ RowWindow(2) = {0, 1}

(***************************************************************************)
(* The model.                                                              *)
(***************************************************************************)
ForwardCalled ==
  call.op = "forward" /\ module.kind = "model" /\ call.shape[2] = module.in_channels

\* C3: for every n_gated >= 0, every image size and every position (r, c),
\* the output of GatedPixelCNN.forward at (r, c) depends only on input
\* pixels strictly earlier in raster order: a row < r, or row r and a
\* column < c.
C3_ForwardCausality ==
  ForwardCalled =>
    /\ call.out.err = NoErr
    /\ \A e \in call.out.dep :
         e[2][2] < e[1][1] \/ (e[2][2] = e[1][1] /\ e[2][3] < e[1][2])

\* A model with two gated layers ran on a 3x3 image; its output at (1, 1)
\* reads the pixel to the left and the pixel above and to the right.
C3_Witness ==
  /\ ForwardCalled /\ module.n_gated = 2 /\ call.out.err = NoErr
  /\ call.shape[3] = 3 /\ call.shape[4] = 3
  /\ <<<<1, 1>>, <<"x", 1, 0>>>> \in call.out.dep
  /\ <<<<1, 1>>, <<"x", 0, 2>>>> \in call.out.dep

\* C6: for every input of shape (N, C, H, W) with C = in_channels, every
\* out_dim >= 1 and every n_gated >= 0, forward returns a tensor of shape
\* (N, out_dim, C, H, W), a reshape of the head's (N, out_dim*C, H, W)
\* output with the same element count.
C6_ForwardShape ==
  ForwardCalled =>
    /\ call.head.err = NoErr
    /\ call.head.shape = <<call.shape[1], module.out_dim * call.shape[2],
                           call.shape[3], call.shape[4]>>
    /\ call.out.err = NoErr
    /\ call.out.shape = <<call.shape[1], module.out_dim, call.shape[2],
                          call.shape[3], call.shape[4]>>

\* A model without gated layers, out_dim 2, ran on a two-channel image.
C6_Witness ==
  /\ ForwardCalled /\ module.n_gated = 0 /\ module.out_dim = 2
  /\ call.shape = <<1, 2, 3, 3>>
  /\ call.out.shape = <<1, 2, 2, 3, 3>>

(***************************************************************************)
(* Sampling.                                                               *)
(***************************************************************************)
SampleCalled ==
  /\ call.op = "sample" /\ module.kind = "model"
  /\ module.in_channels = 1 /\ module.out_dim = 1

\* C1: sample on a canvas with entries fixed (>= 0) and entries -1
\* completes and returns a canvas in which every fixed entry holds its
\* original value and every entry that was -1 holds 0 or 1.
C1_SampleRespectsEvidence ==
  (SampleCalled /\ ~call.arg.none) =>
    /\ call.out.err = NoErr
    /\ \A p \in Positions(ScanRows, ScanCols) :
         LET old == Entry(call.arg, p[1], p[2])
             new == Entry(call.out.heap[call.out.ret], p[1], p[2])
         IN  IF old >= 0 THEN new = old ELSE new \in {0, 1}

\* C2: sample() without a canvas starts from a (1, 1, 28, 28) canvas of -1
\* and returns a canvas whose every entry is 0 or 1.
C2_SampleFillsCanvas ==
  (SampleCalled /\ call.arg.none) =>
    /\ call.out.err = NoErr
    /\ call.out.heap[call.out.ret].shape = ScanShape
    /\ \A p \in Positions(ScanRows, ScanCols) :
         Entry(call.out.heap[call.out.ret], p[1], p[2]) \in {0, 1}

C9_SampleScanOrder ==
  (SampleCalled /\ ~call.arg.none) =>
    /\ call.out.visited = [k \in 1..(ScanRows * ScanCols) |->
                             <<(k - 1) \div ScanCols, (k - 1) % ScanCols>>]
    /\ call.out.passes = ScanRows * ScanCols

====
